---- MODULE Spec2Model ----
(***************************************************************************)
(* A model of execInvokeFM.py: one run of main() from argument parsing to  *)
(* process exit, with the result projection of _process_results computed   *)
(* as the code computes it.                                                *)
(*                                                                         *)
(* Python strings that the code takes apart (capture specifiers, result    *)
(* and row keys) are sequences of one-character strings.  Python values    *)
(* are records with a "tag" field.  A Python dict whose iteration order    *)
(* the code relies on (the raw result, captured_results) is a sequence of  *)
(* [key, value] items in insertion order; a table row is a function from   *)
(* its keys to its values.  A Python set is a sequence without repeats, in *)
(* the order its iteration happens to produce.                             *)
(***************************************************************************)
EXTENDS Integers, Sequences, FiniteSets, TLC

VARIABLES pc, args, import_params, export_spec, params_to_capture, config,
          conn_params, connection, exc, exit_code, logged, calls, described,
          result, captured_results, printed

vars == <<pc, args, import_params, export_spec, params_to_capture, config,
          conn_params, connection, exc, exit_code, logged, calls, described,
          result, captured_results, printed>>

----------------------------------------------------------------------------
(* Bounds of the model *)

MaxCapture == 2
MaxRows == 2
MaxSections == 2
MaxSpecLen == 5
MainMaxCapture == 1
MainMaxRows == 1

SeqUpTo(S, n) == UNION {[1..k -> S] : k \in 0..n}

----------------------------------------------------------------------------
(* Python values *)

None == [tag |-> "None"]
Unset == [tag |-> "unset"]
Scalar(v) == [tag |-> "scalar", v |-> v]
Dict(f) == [tag |-> "dict", items |-> f]
List(s) == [tag |-> "list", items |-> s]

\* bool(value): None, 0, "" and empty containers are false
Falsy(v) ==
    \/ v.tag = "None"
    \/ v.tag = "scalar" /\ v.v \in {"0", ""}
    \/ v.tag = "list" /\ Len(v.items) = 0
    \/ v.tag = "dict" /\ DOMAIN v.items = {}
    \/ v.tag = "set" /\ Len(v.items) = 0
    \/ v.tag = "object" /\ ~v.has_capture /\ ~v.other_keys

\* a or b
PyOr(a, b) == IF Falsy(a) THEN b ELSE a

\* row.get(key)
RowGet(row, key) == IF key \in DOMAIN row.items THEN row.items[key] ELSE None

\* ordered dict: key in d, d[key], d[key] = value, d.items()
HasKey(d, key) == \E i \in DOMAIN d : d[i].key = key
Get(d, key) == d[CHOOSE i \in DOMAIN d : d[i].key = key].value
DictSet(d, key, value) ==
    IF HasKey(d, key)
    THEN [i \in DOMAIN d |-> IF d[i].key = key
                             THEN [key |-> key, value |-> value] ELSE d[i]]
    ELSE Append(d, [key |-> key, value |-> value])
Keys(d) == {d[i].key : i \in DOMAIN d}

----------------------------------------------------------------------------
(* Strings as character sequences *)

sT == <<"T">>
sS == <<"S">>
sM == <<"M">>
sF == <<"F">>
sWA == <<"W", "A">>
sT_F == <<"T", "[", "F", "]">>
sS_F == <<"S", "[", "F", "]">>

\* c in s
Contains(s, c) == \E i \in DOMAIN s : s[i] = c
\* s.endswith(c)
EndsWith(s, c) == Len(s) > 0 /\ s[Len(s)] = c
\* s.split(c, 1) when c occurs in s: the text before the first c, and the rest
SplitOnce(s, c) ==
    LET i == CHOOSE j \in DOMAIN s : s[j] = c /\ \A k \in 1..(j - 1) : s[k] # c
    IN  <<SubSeq(s, 1, i - 1), SubSeq(s, i + 1, Len(s))>>
\* s.rstrip(c): every trailing c is removed
RECURSIVE RStrip(_, _)
RStrip(s, c) ==
    IF Len(s) > 0 /\ s[Len(s)] = c THEN RStrip(SubSeq(s, 1, Len(s) - 1), c) ELSE s

\* '[' in param and param.endswith(']')
IsIndexedForm(param) == Contains(param, "[") /\ EndsWith(param, "]")
\* table_name, field = param.split('[', 1)
table_name(param) == SplitOnce(param, "[")[1]
\* field = field.rstrip(']')
field(param) == RStrip(SplitOnce(param, "[")[2], "]")

----------------------------------------------------------------------------
(* Result projection *)

\* ExtractRows with the rows that yield no value left out
RECURSIVE ExtractRows_SkipNone(_, _)
ExtractRows_SkipNone(rows, fld) ==
    IF rows = <<>> THEN <<>>
    ELSE LET row == Head(rows)
             rest == ExtractRows_SkipNone(Tail(rows), fld)
         IN  IF row.tag = "dict" /\ PyOr(RowGet(row, fld), RowGet(row, sWA)) # None
             THEN <<PyOr(RowGet(row, fld), RowGet(row, sWA))>> \o rest
             ELSE rest

\* the generator of lines 255-257: one value for every row that is a dict
RECURSIVE ExtractRows(_, _)
ExtractRows(rows, fld) ==
    IF rows = <<>> THEN <<>>
    ELSE LET row == Head(rows)
             rest == ExtractRows(Tail(rows), fld)
         IN  IF row.tag = "dict"
             THEN <<PyOr(RowGet(row, fld), RowGet(row, sWA))>> \o rest
             ELSE rest

\* ProcessParam with the entry of an indexed specifier created before the
\* table is looked up
ProcessParam_EagerEntry(captured, res, param) ==
    IF IsIndexedForm(param)
    THEN LET old == IF HasKey(captured, param)
                    THEN Get(captured, param).items ELSE <<>>
             new == IF HasKey(res, table_name(param))
                       /\ Get(res, table_name(param)).tag = "list"
                    THEN ExtractRows(Get(res, table_name(param)).items, field(param))
                    ELSE <<>>
         IN  DictSet(captured, param, List(old \o new))
    ELSE IF HasKey(res, param)
         THEN DictSet(captured, param, Get(res, param))
         ELSE captured

\* one iteration of the loop over params_to_capture
ProcessParam(captured, res, param) ==
    IF IsIndexedForm(param)
    THEN IF HasKey(res, table_name(param)) /\ Get(res, table_name(param)).tag = "list"
         THEN LET old == IF HasKey(captured, param)
                         THEN Get(captured, param).items ELSE <<>>
              IN  DictSet(captured, param,
                          List(old \o ExtractRows(Get(res, table_name(param)).items,
                                                  field(param))))
         ELSE captured
    ELSE IF HasKey(res, param)
         THEN DictSet(captured, param, Get(res, param))
         ELSE captured

RECURSIVE process_results(_, _, _)
process_results(captured, res, params) ==
    IF params = <<>> THEN captured
    ELSE process_results(ProcessParam(captured, res, Head(params)), res, Tail(params))

\* json.dumps(value, indent=2) if isinstance(value, (list, dict)) else value
FormatValue(v) ==
    IF v.tag \in {"list", "dict"} THEN [fmt |-> "json", of |-> v]
    ELSE [fmt |-> "str", of |-> v]

\* Display printing the entries last to first
Display_Reversed(d) ==
    [i \in DOMAIN d |-> [key |-> d[Len(d) + 1 - i].key,
                         text |-> FormatValue(d[Len(d) + 1 - i].value)]]

\* if not params_to_capture, as a test for None only
NoCapture_IsNone(p) == p.tag = "None"

\* if not params_to_capture
NoCapture(p) == Falsy(p)

\* the print loop of _display_all_results and _display_captured_results
Display(d) == [i \in DOMAIN d |-> [key |-> d[i].key, text |-> FormatValue(d[i].value)]]

----------------------------------------------------------------------------
(* Files and command lines *)

\* a JSON file: absent, not JSON, JSON that is no object, or an object, of
\* which the code reads the "capture" entry only
JsonMissing == [tag |-> "missing"]
JsonInvalid == [tag |-> "invalid"]
JsonNotObject == [tag |-> "not_object"]
JsonObject(has_capture, capture, other_keys) ==
    [tag |-> "object", has_capture |-> has_capture, capture |-> capture,
     other_keys |-> other_keys]

\* load_json: the parsed object, or sys.exit(1) after an error message
load_json(f) ==
    IF f.tag = "missing" THEN [tag |-> "exit", msg |-> "File not found"]
    ELSE IF f.tag \in {"invalid", "not_object"}
         THEN [tag |-> "exit", msg |-> "Error reading file"]
         ELSE [tag |-> "ok", value |-> f]

\* a config file: absent, unparsable, or a sequence of sections, each with
\* or without a dest option
ConfigMissing == [tag |-> "missing"]
ConfigMalformed == [tag |-> "malformed"]
ConfigFile(sections) == [tag |-> "file", sections |-> sections]

\* DestMatches without the comparison of the option's value
DestMatches_AnyDest(section, dest) == section.dest.tag # "None"

\* config.has_option(section, 'dest') and config.get(section, 'dest') == dest
DestMatches(section, dest) == section.dest.tag # "None" /\ section.dest = dest

\* dict(config.items(section)): the options of section i of the file
SectionItems(cfg, i) == [name |-> i, dest |-> cfg.sections[i].dest]

load_config(cfg, dest) ==
    IF cfg.tag = "missing"
    THEN [tag |-> "exit", msg |-> "Configuration file not found"]
    ELSE IF cfg.tag = "malformed"
    THEN [tag |-> "exit", msg |-> "Error reading configuration"]
    ELSE IF ~Falsy(dest)
    THEN IF \E i \in DOMAIN cfg.sections : DestMatches(cfg.sections[i], dest)
         THEN LET i == CHOOSE j \in DOMAIN cfg.sections :
                          /\ DestMatches(cfg.sections[j], dest)
                          /\ \A k \in 1..(j - 1) : ~DestMatches(cfg.sections[k], dest)
              IN  [tag |-> "ok", value |-> SectionItems(cfg, i)]
         ELSE [tag |-> "exit", msg |-> "Destination not found in config file"]
    ELSE IF Len(cfg.sections) = 0
    THEN [tag |-> "exit", msg |-> "No connection configurations found"]
    ELSE [tag |-> "ok", value |-> SectionItems(cfg, 1)]

\* set(array) in each order its iteration can have
SetOrders(arr) ==
    LET elems == {arr[i] : i \in DOMAIN arr}
    IN  {s \in [1..Cardinality(elems) -> elems] :
            \A i, j \in DOMAIN s : i # j => s[i] # s[j]}

\* set(export_spec.get("capture", [])) if export_spec else None
CaptureSets(spec) ==
    IF Falsy(spec) THEN {None}
    ELSE {[tag |-> "set", items |-> s] :
            s \in SetOrders(IF spec.has_capture THEN spec.capture ELSE <<>>)}

----------------------------------------------------------------------------
(* Input domains *)

DestValues == {Scalar(""), Scalar("A"), Scalar("B")}

\* the command lines parse_args accepts or rejects
ArgSpace ==
    {[connection |-> c, dest |-> d, credentials |-> u, import_path |-> i,
      export_path |-> e, desc |-> ds] :
        c \in BOOLEAN, d \in DestValues \cup {None}, u \in BOOLEAN,
        i \in BOOLEAN, e \in BOOLEAN, ds \in BOOLEAN}

MainArgs == {a \in ArgSpace : /\ a.connection => ~a.credentials
                              /\ ~a.connection => a.dest = None}

\* flags on the command line, no import file, a call (not --desc)
ProjectArgs == {a \in ArgSpace : /\ ~a.connection /\ a.credentials /\ a.dest = None
                                 /\ ~a.import_path /\ ~a.desc}

ImportFiles == {JsonMissing, JsonInvalid, JsonNotObject,
                JsonObject(FALSE, <<>>, FALSE), JsonObject(FALSE, <<>>, TRUE)}

ExportFilesOver(specifiers, n) ==
    {JsonMissing, JsonInvalid, JsonNotObject,
     JsonObject(FALSE, <<>>, FALSE), JsonObject(FALSE, <<>>, TRUE)}
    \cup {JsonObject(TRUE, arr, FALSE) : arr \in SeqUpTo(specifiers, n)}

Specifiers == {sT_F, sS_F, sS, sM}
SpecAlphabet == {"T", "F", "[", "]"}
AllSpecifiers == SeqUpTo(SpecAlphabet, MaxSpecLen) \ {<<>>}

SectionSpace == {[dest |-> d] : d \in DestValues \cup {None}}
ConfigFiles == {ConfigMissing, ConfigMalformed}
               \cup {ConfigFile(s) : s \in SeqUpTo(SectionSpace, MaxSections)}

\* table rows: dicts over the keys F and WA, and a row that is no dict
RowSpace ==
    {Dict([k \in {} |-> None]),
     Dict(sF :> Scalar("x")),
     Dict(sF :> Scalar("0")),
     Dict(sWA :> Scalar("y")),
     Dict((sF :> Scalar("x")) @@ (sWA :> Scalar("y"))),
     Dict((sF :> Scalar("0")) @@ (sWA :> Scalar("y"))),
     Scalar("r")}

Item(k, v) == [key |-> k, value |-> v]

\* raw results: T absent, a scalar or a table; S absent or a scalar
ResultsOver(rows, n) ==
    {t \o s : t \in {<<>>, <<Item(sT, Scalar("t"))>>}
                    \cup {<<Item(sT, List(r))>> : r \in SeqUpTo(rows, n)},
              s \in {<<>>, <<Item(sS, Scalar("OK"))>>}}

RawResults == ResultsOver(RowSpace, MaxRows)
MainResults == ResultsOver({Dict(sF :> Scalar("x"))}, MainMaxRows)

\* results that tell the candidate fields of a specifier apart
ParseRow == Dict((<<>> :> Scalar("empty")) @@ (sF :> Scalar("x"))
                 @@ (<<"F", "]">> :> Scalar("y")) @@ (<<"]">> :> Scalar("z")))
ParseResults == {<<Item(sT, List(<<ParseRow>>)), Item(<<"T", "[", "F">>, Scalar("p"))>>}

----------------------------------------------------------------------------
(* The run of main() *)

Init ==
    /\ pc = "parse_args"
    /\ args = Unset
    /\ import_params = Unset
    /\ export_spec = Unset
    /\ params_to_capture = Unset
    /\ config = Unset
    /\ conn_params = Unset
    /\ connection = "none"
    /\ exc = "none"
    /\ exit_code = -1
    /\ logged = {}
    /\ calls = 0
    /\ described = 0
    /\ result = <<>>
    /\ captured_results = <<>>
    /\ printed = <<>>

\* parse_args: parser.error leaves with SystemExit(2)
parse_args ==
    /\ pc = "parse_args"
    /\ \E a \in MainArgs :
        /\ args' = a
        /\ IF ~a.connection /\ ~a.credentials
           THEN /\ exc' = "SystemExit2"
                /\ pc' = "main_exit"
           ELSE /\ exc' = exc
                /\ pc' = "load_import"
    /\ UNCHANGED <<import_params, export_spec, params_to_capture, config,
                   conn_params, connection, exit_code, logged, calls, described,
                   result, captured_results, printed>>

\* main, lines 371-372
LoadImport(files) ==
    /\ pc = "load_import"
    /\ IF ~args.import_path
       THEN /\ import_params' = None
            /\ pc' = "load_export"
            /\ UNCHANGED <<exc, logged>>
       ELSE \E f \in files :
              LET r == load_json(f)
              IN  IF r.tag = "exit"
                  THEN /\ logged' = logged \cup {r.msg}
                       /\ exc' = "SystemExit1"
                       /\ pc' = "main_exit"
                       /\ UNCHANGED import_params
                  ELSE /\ import_params' = r.value
                       /\ pc' = "load_export"
                       /\ UNCHANGED <<exc, logged>>
    /\ UNCHANGED <<args, export_spec, params_to_capture, config, conn_params,
                   connection, exit_code, calls, described, result,
                   captured_results, printed>>

\* main, lines 373-376
LoadExport(files) ==
    /\ pc = "load_export"
    /\ IF ~args.export_path
       THEN /\ export_spec' = None
            /\ params_to_capture' = None
            /\ pc' = "load_params"
            /\ UNCHANGED <<exc, logged>>
       ELSE \E f \in files :
              LET r == load_json(f)
              IN  IF r.tag = "exit"
                  THEN /\ logged' = logged \cup {r.msg}
                       /\ exc' = "SystemExit1"
                       /\ pc' = "main_exit"
                       /\ UNCHANGED <<export_spec, params_to_capture>>
                  ELSE /\ export_spec' = r.value
                       /\ params_to_capture' \in CaptureSets(r.value)
                       /\ pc' = "load_params"
                       /\ UNCHANGED <<exc, logged>>
    /\ UNCHANGED <<args, import_params, config, conn_params, connection,
                   exit_code, calls, described, result, captured_results, printed>>

\* main, lines 379-389; ConnectionParams(**section) raises TypeError when the
\* section lacks a required field or holds one the class does not have
LoadParams(configs) ==
    /\ pc = "load_params"
    /\ IF args.connection
       THEN \E cfg \in configs :
              LET r == load_config(cfg, args.dest)
              IN  /\ config' = cfg
                  /\ IF r.tag = "exit"
                     THEN /\ logged' = logged \cup {r.msg}
                          /\ exc' = "SystemExit1"
                          /\ pc' = "main_exit"
                          /\ UNCHANGED conn_params
                     ELSE \E fits \in BOOLEAN :
                            IF fits
                            THEN /\ conn_params' = [tag |-> "config", section |-> r.value]
                                 /\ pc' = "connect"
                                 /\ UNCHANGED <<exc, logged>>
                            ELSE /\ exc' = "Exception"
                                 /\ pc' = "main_exit"
                                 /\ UNCHANGED <<conn_params, logged>>
       ELSE /\ conn_params' = [tag |-> "flags"]
            /\ pc' = "connect"
            /\ UNCHANGED <<config, exc, logged>>
    /\ UNCHANGED <<args, import_params, export_spec, params_to_capture,
                   connection, exit_code, calls, described, result,
                   captured_results, printed>>

\* SAPConnection.__enter__ and connect: an exception leaves __enter__, so
\* __exit__ does not run
connect ==
    /\ pc = "connect"
    /\ \E outcome \in {"refused", "attributes_failed", "connected",
                       "interrupt_in_constructor", "interrupt_in_attributes"} :
        /\ connection' = IF outcome \in {"refused", "interrupt_in_constructor"}
                         THEN "none" ELSE "open"
        /\ logged' = logged \cup
              (CASE outcome \in {"refused", "attributes_failed"} -> {"Connection error"}
                 [] outcome = "connected" -> {"Connected to SAP system"}
                 [] OTHER -> {})
        /\ exc' = CASE outcome \in {"refused", "attributes_failed"} -> "SystemExit1"
                    [] outcome = "connected" -> "none"
                    [] OTHER -> "KeyboardInterrupt"
        /\ pc' = IF outcome = "connected" THEN "body" ELSE "main_exit"
    /\ UNCHANGED <<args, import_params, export_spec, params_to_capture, config,
                   conn_params, exit_code, calls, described, result,
                   captured_results, printed>>

\* main, lines 393-395: the --desc branch, with get_function_metadata
DescribeBranch ==
    /\ pc = "body"
    /\ args.desc
    /\ connection = "open"
    /\ described' = described + 1
    /\ \E outcome \in {"described", "no_description", "rfc_error", "interrupt"} :
        /\ logged' = logged \cup
              (CASE outcome = "described" -> {"Parameters of function"}
                 [] outcome = "no_description" -> {"Could not retrieve description"}
                 [] outcome = "rfc_error" -> {"RFC error retrieving function description"}
                 [] OTHER -> {})
        /\ exc' = CASE outcome = "described" -> "none"
                    [] outcome = "interrupt" -> "KeyboardInterrupt"
                    [] OTHER -> "SystemExit1"
    /\ pc' = "with_exit"
    /\ UNCHANGED <<args, import_params, export_spec, params_to_capture, config,
                   conn_params, connection, exit_code, calls, result,
                   captured_results, printed>>

\* execute_function with _process_results and the display functions
execute_function(results) ==
    /\ connection = "open"
    /\ calls' = calls + 1
    /\ pc' = "with_exit"
    /\ \/ /\ logged' = logged \cup {"Function execution error"}
          /\ UNCHANGED <<exc, result, captured_results, printed>>
       \/ /\ exc' = "KeyboardInterrupt"
          /\ UNCHANGED <<logged, result, captured_results, printed>>
       \/ \E r \in results :
            /\ result' = r
            /\ exc' = exc
            /\ IF r = <<>>
               THEN /\ logged' = logged \cup {"called successfully"}
                    /\ UNCHANGED <<captured_results, printed>>
               ELSE IF NoCapture(params_to_capture)
               THEN /\ logged' = logged \cup {"called successfully",
                                              "Function returned the following data:"}
                    /\ printed' = Display(r)
                    /\ UNCHANGED captured_results
               ELSE /\ captured_results' = process_results(<<>>, r, params_to_capture.items)
                    /\ logged' = logged \cup {"called successfully",
                                              "Function returned the following requested data:"}
                    /\ printed' = Display(captured_results')
    /\ UNCHANGED <<args, import_params, export_spec, params_to_capture, config,
                   conn_params, connection, exit_code, described>>

\* the call made in the --desc branch as well
CallBranch_AnyMode(results) ==
    /\ pc = "body"
    /\ execute_function(results)

\* main, lines 396-397: the else branch of the with-block
CallBranch(results) ==
    /\ pc = "body"
    /\ ~args.desc
    /\ execute_function(results)

\* SAPConnection.__exit__ and close
exit_with ==
    /\ pc = "with_exit"
    /\ IF connection = "open"
       THEN /\ connection' = "closed"
            /\ logged' = logged \cup {"SAP connection closed"}
       ELSE UNCHANGED <<connection, logged>>
    /\ pc' = "main_exit"
    /\ UNCHANGED <<args, import_params, export_spec, params_to_capture, config,
                   conn_params, exc, exit_code, calls, described, result,
                   captured_results, printed>>

\* the operator's Ctrl-C between two steps of main
Interrupt ==
    /\ pc \in {"parse_args", "load_import", "load_export", "load_params", "body"}
    /\ exc' = "KeyboardInterrupt"
    /\ pc' = IF pc = "body" THEN "with_exit" ELSE "main_exit"
    /\ UNCHANGED <<args, import_params, export_spec, params_to_capture, config,
                   conn_params, connection, exit_code, logged, calls, described,
                   result, captured_results, printed>>

\* the except clauses of main and the end of the process
ExitCodeOf(e) ==
    CASE e = "none" -> 0
      [] e = "KeyboardInterrupt" -> 130
      [] e = "SystemExit2" -> 2
      [] OTHER -> 1

MainExit ==
    /\ pc = "main_exit"
    /\ exit_code' = ExitCodeOf(exc)
    /\ logged' = logged \cup
          (CASE exc = "KeyboardInterrupt" -> {"Operation interrupted by user"}
             [] exc = "Exception" -> {"Unhandled exception"}
             [] OTHER -> {})
    /\ pc' = "done"
    /\ UNCHANGED <<args, import_params, export_spec, params_to_capture, config,
                   conn_params, connection, exc, calls, described, result,
                   captured_results, printed>>

Next ==
    \/ parse_args
    \/ LoadImport(ImportFiles)
    \/ LoadExport(ExportFilesOver({sS, sT_F}, MainMaxCapture))
    \/ LoadParams(ConfigFiles)
    \/ connect
    \/ DescribeBranch
    \/ CallBranch(MainResults)
    \/ exit_with
    \/ Interrupt
    \/ MainExit

Spec == Init /\ [][Next]_vars

\* runs that call the function with flags on the command line, over the
\* wide domains of export files and raw results
InitProject ==
    /\ pc = "load_import"
    /\ args \in ProjectArgs
    /\ import_params = Unset
    /\ export_spec = Unset
    /\ params_to_capture = Unset
    /\ config = Unset
    /\ conn_params = Unset
    /\ connection = "none"
    /\ exc = "none"
    /\ exit_code = -1
    /\ logged = {}
    /\ calls = 0
    /\ described = 0
    /\ result = <<>>
    /\ captured_results = <<>>
    /\ printed = <<>>

NextProject ==
    \/ LoadImport(ImportFiles)
    \/ LoadExport(ExportFilesOver(Specifiers, MaxCapture))
    \/ LoadParams(ConfigFiles)
    \/ connect
    \/ CallBranch(RawResults)
    \/ exit_with
    \/ MainExit

SpecProject == InitProject /\ [][NextProject]_vars

\* runs that capture one specifier, over every specifier of the alphabet
ParseExportFiles == {JsonObject(TRUE, <<s>>, FALSE) : s \in AllSpecifiers}

NextParse ==
    \/ LoadImport(ImportFiles)
    \/ LoadExport(ParseExportFiles)
    \/ LoadParams(ConfigFiles)
    \/ connect
    \/ CallBranch(ParseResults)
    \/ exit_with
    \/ MainExit

SpecParse == InitProject /\ [][NextParse]_vars

----------------------------------------------------------------------------
(* Properties *)

Called == "called successfully" \in logged
AllPath == "Function returned the following data:" \in logged
CapturedPath == "Function returned the following requested data:" \in logged
Requested == IF params_to_capture.tag = "set" THEN params_to_capture.items ELSE <<>>
Range(s) == {s[i] : i \in DOMAIN s}
IndexIn(s, x) == CHOOSE i \in DOMAIN s : s[i] = x /\ \A j \in 1..(i - 1) : s[j] # x
PrintedKeys == [i \in DOMAIN printed |-> printed[i].key]

\* the rows of the table an indexed specifier names, when it is a table
IsTable(res, name) == HasKey(res, name) /\ Get(res, name).tag = "list"
TextBeforeBracket(s) == SubSeq(s, 1, IndexIn(s, "[") - 1)
TextInBrackets(s) == SubSeq(s, IndexIn(s, "[") + 1, Len(s) - 1)
DictRowIndices(rows) == {i \in DOMAIN rows : rows[i].tag = "dict"}
\* the index in rows of the k-th row that is a mapping
KthDictRow(rows, k) ==
    CHOOSE i \in DictRowIndices(rows) :
        Cardinality({j \in DictRowIndices(rows) : j <= i}) = k

ErrorMessages ==
    {"File not found", "Error reading file", "Configuration file not found",
     "Error reading configuration", "Destination not found in config file",
     "No connection configurations found", "Connection error",
     "Function execution error"}

\* C1: a finished run has exit code 0 only when no error occurred, 1 whenever
\* a connection, configuration, file or invocation error was reported, and
\* 130 when the operator interrupted it.
C1_ExitCodes ==
    pc = "done" =>
        /\ exit_code = 0 => (logged \cap ErrorMessages = {} /\ exc = "none")
        /\ logged \cap ErrorMessages # {} => exit_code = 1
        /\ exc = "KeyboardInterrupt" => exit_code = 130

\* C2: no run ends with a connection that was created and never closed.
C2_ClosedOnEveryExit == pc = "done" => connection # "open"

\* the rows of T that are mappings and hold key F or key "WA"
RowsWithFieldOrWA(rows, fld) ==
    {i \in DictRowIndices(rows) :
        fld \in DOMAIN rows[i].items \/ sWA \in DOMAIN rows[i].items}

\* C3 as stated: the entry of "T[F]" has one element for every row of T that
\* is a mapping and holds key F or key "WA", and no element for other rows.
C3_LengthCountsRowsWithKey ==
    CapturedPath =>
        \A i \in DOMAIN Requested :
            LET s == Requested[i]
            IN  (IsIndexedForm(s) /\ IsTable(result, TextBeforeBracket(s))) =>
                    /\ HasKey(captured_results, s)
                    /\ Len(Get(captured_results, s).items)
                         = Cardinality(RowsWithFieldOrWA(
                               Get(result, TextBeforeBracket(s)).items,
                               TextInBrackets(s)))

\* the k-th element of the entry comes from the k-th mapping row of the table
ElementsInRowOrder(entry, rows, fld) ==
    \A k \in DOMAIN entry :
        LET row == rows[KthDictRow(rows, k)]
        IN  entry[k] \in {RowGet(row, fld), RowGet(row, sWA), None}

\* C3 amended: the entry of "T[F]" has one element for every row of T that is
\* a mapping, whether or not the row holds key F or "WA" (a row that yields
\* no value contributes a null element), in the row order of T.
C3_LengthCountsMappingRows ==
    CapturedPath =>
        \A i \in DOMAIN Requested :
            LET s == Requested[i]
            IN  (IsIndexedForm(s) /\ IsTable(result, TextBeforeBracket(s))) =>
                    /\ HasKey(captured_results, s)
                    /\ Get(captured_results, s).tag = "list"
                    /\ Len(Get(captured_results, s).items)
                         = Cardinality(DictRowIndices(
                               Get(result, TextBeforeBracket(s)).items))
                    /\ ElementsInRowOrder(Get(captured_results, s).items,
                                          Get(result, TextBeforeBracket(s)).items,
                                          TextInBrackets(s))

\* C3 witness: a table of two mapping rows, the first without F and WA, was
\* captured as a null and the second row's WA.
C3_Witness ==
    /\ CapturedPath
    /\ HasKey(captured_results, sT_F)
    /\ IsTable(result, sT)
    /\ Len(Get(result, sT).items) = 2
    /\ Get(result, sT).items[1] = Dict([k \in {} |-> None])
    /\ Get(result, sT).items[2] = Dict(sWA :> Scalar("y"))
    /\ Get(captured_results, sT_F).items = <<None, Scalar("y")>>

\* C4: for every mapping row the extracted value is row[F] whenever the row
\* holds key F, whatever its value, and row["WA"] only when key F is absent.
C4_FieldWinsWhenPresent ==
    CapturedPath =>
        \A i \in DOMAIN Requested :
            LET s == Requested[i]
            IN  (IsIndexedForm(s) /\ IsTable(result, TextBeforeBracket(s))
                 /\ HasKey(captured_results, s)) =>
                    LET rows == Get(result, TextBeforeBracket(s)).items
                        entry == Get(captured_results, s).items
                    IN  \A k \in DOMAIN entry :
                            k <= Cardinality(DictRowIndices(rows)) =>
                                LET row == rows[KthDictRow(rows, k)]
                                IN  entry[k] =
                                      IF TextInBrackets(s) \in DOMAIN row.items
                                      THEN row.items[TextInBrackets(s)]
                                      ELSE RowGet(row, sWA)

\* the "capture" array of the export file
CaptureArray ==
    IF export_spec.tag = "object" /\ export_spec.has_capture
    THEN export_spec.capture ELSE <<>>

\* C5 as stated: the captured entries are printed in the order in which their
\* specifiers appear in the "capture" array of the export file.
C5_PrintedInArrayOrder ==
    CapturedPath =>
        \A i, j \in DOMAIN printed :
            i < j => IndexIn(CaptureArray, printed[i].key)
                       < IndexIn(CaptureArray, printed[j].key)

\* C5 amended: every distinct specifier of the array is processed once, in the
\* iteration order of the set built from the array, which need not be the
\* order of the array; the entries are produced and printed in that iteration
\* order; within a table entry the rows keep the table's order.
C5_PrintedInIterationOrder ==
    CapturedPath =>
        /\ Range(Requested) = Range(CaptureArray)
        /\ \A i, j \in DOMAIN Requested : i # j => Requested[i] # Requested[j]
        /\ Len(printed) = Len(captured_results)
        /\ \A i \in DOMAIN printed :
              /\ printed[i].key = captured_results[i].key
              /\ printed[i].key \in Range(Requested)
        /\ \A i, j \in DOMAIN printed :
              i < j => IndexIn(Requested, printed[i].key)
                         < IndexIn(Requested, printed[j].key)
        /\ \A i \in DOMAIN captured_results :
              LET s == captured_results[i].key
              IN  IsIndexedForm(s) =>
                     ElementsInRowOrder(captured_results[i].value.items,
                                        Get(result, TextBeforeBracket(s)).items,
                                        TextInBrackets(s))

\* C5 witness: the array S, T[F] was processed and printed as T[F], S, the
\* table entry holding two rows.
C5_Witness ==
    /\ CapturedPath
    /\ CaptureArray = <<sS, sT_F>>
    /\ PrintedKeys = <<sT_F, sS>>
    /\ Len(Get(captured_results, sT_F).items) = 2

\* C6: the captured output holds key s only if the name s refers to is in the
\* raw result: "T[F]" with T absent or no sequence yields no key, a plain
\* name that is absent yields no key, and no error is raised.
C6_AbsentNamesYieldNoKey ==
    CapturedPath =>
        /\ exc = "none"
        /\ Keys(captured_results) \subseteq Range(Requested)
        /\ \A i \in DOMAIN Requested :
              LET s == Requested[i]
              IN  HasKey(captured_results, s) =>
                     IF IsIndexedForm(s)
                     THEN IsTable(result, TextBeforeBracket(s))
                     ELSE HasKey(result, s)

\* C6 witness: capturing MISSING and S[F], S a scalar, a finished run printed
\* nothing and exited 0.
C6_Witness ==
    /\ CapturedPath
    /\ Requested = <<sM, sS_F>>
    /\ HasKey(result, sS)
    /\ captured_results = <<>>
    /\ printed = <<>>
    /\ pc = "done"
    /\ exit_code = 0

\* no export file, an export file without a "capture" entry, or an empty array
NoCaptureGiven ==
    \/ ~args.export_path
    \/ export_spec.tag = "object" /\ ~export_spec.has_capture
    \/ export_spec.tag = "object" /\ export_spec.capture = <<>>

NoSections == config.tag = "file" /\ Len(config.sections) = 0
NoSectionWithDest(d) ==
    config.tag = "file" /\ \A i \in DOMAIN config.sections : config.sections[i].dest # d
ExitsBeforeConnecting ==
    /\ connection = "none"
    /\ conn_params = Unset
    /\ pc \in {"main_exit", "done"}
    /\ exc = "SystemExit1"
    /\ pc = "done" => exit_code = 1

\* C8 as stated: with --dest d given, load_config returns a section whose dest
\* is d; without --dest, the first section; with the file missing, without
\* sections or without a section of dest d, the run exits 1 unconnected.
C8_DestSelectsSection ==
    config # Unset =>
        /\ conn_params # Unset =>
              /\ config.tag = "file"
              /\ conn_params.section.name \in DOMAIN config.sections
              /\ conn_params.section
                   = SectionItems(config, conn_params.section.name)
              /\ IF args.dest # None
                 THEN conn_params.section.dest = args.dest
                 ELSE conn_params.section.name = 1
        /\ (\/ config.tag = "missing"
            \/ NoSections
            \/ args.dest # None /\ NoSectionWithDest(args.dest))
               => ExitsBeforeConnecting

\* C8 amended: with a non-empty --dest d, load_config returns a section whose
\* dest is d; without --dest or with an empty --dest, the first section; with
\* the file missing, without sections, or (d non-empty) without a section of
\* dest d, the run exits 1 unconnected.
C8_NonEmptyDestSelectsSection ==
    config # Unset =>
        /\ conn_params # Unset =>
              /\ config.tag = "file"
              /\ conn_params.section.name \in DOMAIN config.sections
              /\ conn_params.section
                   = SectionItems(config, conn_params.section.name)
              /\ IF args.dest \notin {None, Scalar("")}
                 THEN conn_params.section.dest = args.dest
                 ELSE conn_params.section.name = 1
        /\ (\/ config.tag = "missing"
            \/ NoSections
            \/ args.dest \notin {None, Scalar("")} /\ NoSectionWithDest(args.dest))
               => ExitsBeforeConnecting

\* C8 witness: --dest B selected the second of two sections, the first having
\* dest A, and the run connected and closed.
C8_Witness ==
    /\ config # Unset
    /\ config.tag = "file"
    /\ Len(config.sections) = 2
    /\ config.sections[1].dest = Scalar("A")
    /\ args.dest = Scalar("B")
    /\ conn_params # Unset
    /\ conn_params.section = [name |-> 2, dest |-> Scalar("B")]
    /\ connection = "closed"

\* C9: a specifier that contains '[' and ends with ']' is read as the table
\* named by the text before the first '[' and the field named by the text
\* between that '[' and the one final ']'; any other specifier is a plain name.
C9_FieldIsTextInBrackets ==
    CapturedPath =>
        \A i \in DOMAIN Requested :
            LET s == Requested[i]
            IN  IF Contains(s, "[") /\ EndsWith(s, "]")
                THEN IF IsTable(result, TextBeforeBracket(s))
                     THEN /\ HasKey(captured_results, s)
                          /\ Get(captured_results, s).items
                               = ExtractRows(Get(result, TextBeforeBracket(s)).items,
                                             TextInBrackets(s))
                     ELSE ~HasKey(captured_results, s)
                ELSE IF HasKey(result, s)
                     THEN /\ HasKey(captured_results, s)
                          /\ Get(captured_results, s) = Get(result, s)
                     ELSE ~HasKey(captured_results, s)

\* C10: the procedure is invoked at most once, and only while the connection
\* that connect() opened is not closed; the JSON files and the connection
\* parameters are loaded before the connection is opened; with --desc the
\* procedure is never invoked and only the description is asked for.
C10_OneCallWhileConnected ==
    [][/\ calls' # calls =>
            /\ calls = 0
            /\ calls' = 1
            /\ "Connected to SAP system" \in logged
            /\ connection = "open"
            /\ "SAP connection closed" \notin logged
            /\ ~args.desc
            /\ described = 0
       /\ connection' # connection /\ connection' = "open" =>
            /\ import_params # Unset
            /\ export_spec # Unset
            /\ params_to_capture # Unset
            /\ conn_params # Unset
       /\ described' # described =>
            /\ args.desc
            /\ calls = 0
            /\ connection = "open"]_vars

\* C10 witness: a finished run with config, import and export files that made
\* its one call and closed the connection.
C10_Witness ==
    /\ pc = "done"
    /\ calls = 1
    /\ args.import_path
    /\ args.export_path
    /\ args.connection
    /\ connection = "closed"
    /\ exit_code = 0

====
